---- MODULE Spec2Model ----
(***************************************************************************)
(* A model of src/app.py (Sneaker Sales Analyzer): parse_sales,            *)
(* calculate_avg_days, get_target_roi, calculate_net and the analysis      *)
(* block that runs when "Analyze" is clicked.                              *)
(*                                                                         *)
(* Representation.                                                         *)
(*   - A datetime is the record of its civil fields [y, mo, d, h, mi], as  *)
(*     Python's datetime is; it is ordered by Minutes(dt), the minutes     *)
(*     since 1970-01-01 00:00 in the proleptic Gregorian calendar.         *)
(*   - An optional value (x | None) is a sequence: <<>> is None, <<x>> is  *)
(*     the value x.                                                        *)
(*   - Money is an integer number of pence; an average is kept exactly as  *)
(*     the pair [s, n] (sum, count).  Net payouts are in 1/10000 pound.    *)
(*   - avg_days, which the code rounds to one decimal, is an integer       *)
(*     number of tenths of a day.  A target ROI is a whole percentage.     *)
(*   - An input line is what the two regular expressions of parse_sales    *)
(*     extract from it: the date-time groups (if the date pattern matches) *)
(*     and the amount group (if the price pattern matches).                *)
(***************************************************************************)
EXTENDS Integers, Sequences, FiniteSets, TLC

VARIABLES
    pc,                 \* position of the running function
    now,                \* the value datetime.now() returned last
    lines, i, sales,    \* parse_sales: the stripped lines, the cursor, the records
    src, iters,         \* history: where each record came from; loop iterations
    all_sales, use_price_filter, min_price, show_last_10,  \* the analysis inputs
    result,             \* what the analysis block displayed
    arg, ret            \* argument and return value of a helper called alone

vars == <<pc, now, lines, i, sales, src, iters, all_sales, use_price_filter,
          min_price, show_last_10, result, arg, ret>>

parseVars == <<lines, i, sales, src, iters>>
analysisVars == <<all_sales, use_price_filter, min_price, show_last_10, result>>
callVars == <<arg, ret>>

(***************************************************************************)
(* Bounds of the model.                                                    *)
(***************************************************************************)
MaxBlocks == 3          \* date/price-bearing lines in a pasted text
MaxFree == 3            \* freely chosen records in an analysed list
MaxOlder == 1           \* freely chosen records ahead of a run of daily records
MaxRecs == 5            \* records handed to calculate_avg_days alone
MaxAvgTenths == 200     \* |avg_days| handed to get_target_roi alone, in tenths

None == <<>>
Some(x) == <<x>>

Min2(a, b) == IF a < b THEN a ELSE b
Abs(a) == IF a < 0 THEN -a ELSE a

(***************************************************************************)
(* datetime                                                                *)
(***************************************************************************)
DT(y, mo, d, h, mi) == [y |-> y, mo |-> mo, d |-> d, h |-> h, mi |-> mi]

IsLeap(y) == (y % 4 = 0 /\ y % 100 # 0) \/ y % 400 = 0

DaysInMonth(y, mo) ==
    IF mo = 2 THEN (IF IsLeap(y) THEN 29 ELSE 28)
    ELSE IF mo \in {4, 6, 9, 11} THEN 30 ELSE 31

\* Days from 1970-01-01 to the civil date y-mo-d.
DaysFromCivil(y, mo, d) ==
    LET yy == IF mo <= 2 THEN y - 1 ELSE y
        era == yy \div 400
        yoe == yy - era * 400
        mp == IF mo > 2 THEN mo - 3 ELSE mo + 9
        doy == (153 * mp + 2) \div 5 + d - 1
        doe == yoe * 365 + yoe \div 4 - yoe \div 100 + doy
    IN  era * 146097 + doe - 719468

Minutes(dt) == DaysFromCivil(dt.y, dt.mo, dt.d) * 1440 + dt.h * 60 + dt.mi

\* (a - b).days for datetimes a, b: timedelta normalises to 0 <= seconds < 86400,
\* so .days is the floor of the difference in days.
DaysBetween(a, b) == (Minutes(a) - Minutes(b)) \div 1440

\* dt.replace(year=y): ValueError (None) when the day does not exist in year y.
ReplaceYear(dt, y) ==
    IF dt.d > DaysInMonth(y, dt.mo) THEN None ELSE Some([dt EXCEPT !.y = y])

\* datetime.strptime(s, '%m/%d/%y, %I:%M %p') on the groups g the date pattern
\* matched: None stands for ValueError.
Strptime(g) ==
    LET year == IF g.yy <= 68 THEN 2000 + g.yy ELSE 1900 + g.yy
    IN  IF /\ g.mm \in 1..12
           /\ g.hh \in 1..12
           /\ g.mi \in 0..59
           /\ g.dd >= 1
           /\ g.dd <= DaysInMonth(year, g.mm)
        THEN Some(DT(year, g.mm, g.dd, (g.hh % 12) + (IF g.pm THEN 12 ELSE 0), g.mi))
        ELSE None

\* Faulty variant: the future-date correction left out.
FixFutureNever(dt, clock) == Some(dt)

\* "Handle future dates (likely typo -> previous century)"
FixFuture(dt, clock) ==
    IF Minutes(dt) > Minutes(clock) THEN ReplaceYear(dt, dt.y - 100) ELSE Some(dt)

(***************************************************************************)
(* parse_sales                                                             *)
(***************************************************************************)
NoGroups == [mm |-> 0, dd |-> 0, yy |-> 0, hh |-> 0, mi |-> 0, pm |-> FALSE]
Groups(mm, dd, yy, hh, mi, pm) ==
    [mm |-> mm, dd |-> dd, yy |-> yy, hh |-> hh, mi |-> mi, pm |-> pm]

\* dm: the date pattern matches, with groups g.  am: how the price pattern
\* matches: "none", "num" (the amount converts to pence amt) or "commas" (the
\* group [\d,]+ holds commas only, so float('') raises ValueError).
Line(dm, g, am, amt) == [dm |-> dm, g |-> g, am |-> am, amt |-> amt]

Junk == Line(FALSE, NoGroups, "none", 0)                       \* "UK 7.5"
PastDate == Line(TRUE, Groups(2, 10, 25, 1, 47, FALSE), "none", 0)   \* "02/10/25, 1:47 AM"
LeapDate == Line(TRUE, Groups(2, 29, 28, 12, 30, TRUE), "none", 0)   \* "02/29/28, 12:30 PM"
BadDate == Line(TRUE, Groups(2, 30, 25, 3, 0, TRUE), "none", 0)      \* "02/30/25, 3:00 PM"
PriceOnly == Line(FALSE, NoGroups, "num", 10900)                    \* "£109"
CommasOnly == Line(FALSE, NoGroups, "commas", 0)                    \* "£,"
\* "11/02/26, 10:01 AM £115.50": in the future or not as the clock stands
DateAndPrice == Line(TRUE, Groups(11, 2, 26, 10, 1, FALSE), "num", 11550)

Kinds == {PastDate, LeapDate, BadDate, PriceOnly, CommasOnly, DateAndPrice}

\* Lengths of the runs of junk lines between two lines: 4 leaves the second line
\* inside the lookahead window of a date on the first, 5 leaves it just outside.
Gaps == {0, 4, 5}

\* The clock: datetime.now() never goes back.
ClockStart == DT(2026, 11, 2, 10, 0)
Clock == {ClockStart, DT(2026, 11, 2, 10, 1)}
ClockFrom(t) == {t} \cup {c \in Clock : Minutes(c) >= Minutes(t)}

RECURSIVE Repeat(_, _)
Repeat(x, n) == IF n = 0 THEN <<>> ELSE <<x>> \o Repeat(x, n - 1)

\* The lines ks with gs[k] junk lines between ks[k] and ks[k + 1].
RECURSIVE Interleave(_, _)
Interleave(ks, gs) ==
    IF Len(ks) <= 1 THEN ks
    ELSE <<ks[1]>> \o Repeat(Junk, gs[1]) \o Interleave(Tail(ks), Tail(gs))

\* The pasted texts: up to MaxBlocks lines of the kinds above, junk between them.
Texts == {<<>>} \cup
         UNION {{Interleave(ks, gs) : ks \in [1..n -> Kinds], gs \in [1..(n - 1) -> Gaps]}
                   : n \in 1..MaxBlocks}

\* for j in range(i, min(i + 6, len(lines))): the first j whose line matches the
\* price pattern, or None.  Cursors are 0-based as in the code.
RECURSIVE ScanPrice(_, _, _)
ScanPrice(ls, j, stop) ==
    IF j >= stop THEN None
    ELSE IF ls[j + 1].am # "none" THEN Some(j)
    ELSE ScanPrice(ls, j + 1, stop)

FindPrice(ls, c) == ScanPrice(ls, c, Min2(c + 6, Len(ls)))

\* Faulty variants: "i = j" left out; "i += 1" skipped after a record.
NextCursorNoJump(c, j) == c + 1
NextCursorNoStep(c, j) == j

\* "i = j" at the price line, then "i += 1" at the end of the iteration.
NextCursor(c, j) == j + 1

\* The "Analyze" button has been clicked on a pasted text, the sidebar and the
\* minimum price as they are when the page opens.
ClickInit ==
    /\ pc = "clicked"
    /\ now = ClockStart
    /\ lines \in Texts
    /\ i = 0
    /\ sales = <<>>
    /\ src = <<>>
    /\ iters = 0
    /\ all_sales = <<>>
    /\ use_price_filter = FALSE
    /\ min_price = 0
    /\ show_last_10 = TRUE
    /\ result = [outcome |-> "none"]
    /\ arg = None /\ ret = None

\* "if not st.session_state.sales_input.strip()": no line is left of a blank text.
RejectBlank ==
    /\ pc = "clicked"
    /\ lines = <<>>
    /\ result' = [outcome |-> "NothingToAnalyze"]
    /\ pc' = "shown"
    /\ UNCHANGED <<now, all_sales, use_price_filter, min_price, show_last_10>>
    /\ UNCHANGED parseVars
    /\ UNCHANGED callVars

\* parse_sales is called: sales = [], i = 0.
StartParse ==
    /\ pc = "clicked"
    /\ lines # <<>>
    /\ pc' = "loop"
    /\ UNCHANGED now
    /\ UNCHANGED parseVars
    /\ UNCHANGED analysisVars
    /\ UNCHANGED callVars

\* One iteration of "while i < len(lines)".
ParseIter ==
    /\ pc = "loop"
    /\ i < Len(lines)
    /\ LET line == lines[i + 1] IN
        \/ /\ ~line.dm                                  \* the date pattern fails
           /\ i' = i + 1
           /\ UNCHANGED <<sales, src, now>>
        \/ /\ line.dm
           /\ Strptime(line.g) = None                   \* strptime raises
           /\ i' = i + 1
           /\ UNCHANGED <<sales, src, now>>
        \/ /\ line.dm
           /\ Strptime(line.g) # None
           /\ \E clock \in ClockFrom(now) :
                LET dt == FixFuture(Strptime(line.g)[1], clock)
                    f == FindPrice(lines, i)
                IN  /\ now' = clock
                    /\ IF dt = None \/ f = None         \* replace raises; no price
                       THEN /\ i' = i + 1
                            /\ UNCHANGED <<sales, src>>
                       ELSE IF lines[f[1] + 1].am = "commas"    \* float('') raises
                       THEN /\ i' = i + 1
                            /\ UNCHANGED <<sales, src>>
                       ELSE /\ sales' = Append(sales,
                                   [date |-> dt[1], price |-> lines[f[1] + 1].amt])
                            /\ src' = Append(src,
                                   [dline |-> i, pline |-> f[1], at |-> clock])
                            /\ i' = NextCursor(i, f[1])
    /\ iters' = iters + 1
    /\ UNCHANGED <<pc, lines>>
    /\ UNCHANGED analysisVars
    /\ UNCHANGED callVars

\* "return sales", into all_sales.
ParseReturn ==
    /\ pc = "loop"
    /\ i >= Len(lines)
    /\ pc' = "parsed"
    /\ all_sales' = sales
    /\ UNCHANGED <<now, use_price_filter, min_price, show_last_10, result>>
    /\ UNCHANGED parseVars
    /\ UNCHANGED callVars

ParseNext == ParseIter \/ ParseReturn

(***************************************************************************)
(* Helpers: calculate_net, get_target_roi, calculate_avg_days              *)
(***************************************************************************)
RECURSIVE SumSeq(_)
SumSeq(s) == IF s = <<>> THEN 0 ELSE s[1] + SumSeq(Tail(s))

Prices(rs) == [k \in 1..Len(rs) |-> rs[k].price]

\* statistics.mean of a non-empty sequence, kept exact.
Mean(xs) == [s |-> SumSeq(xs), n |-> Len(xs)]

\* round(num / den, ndigits) with num / den already scaled by 10^ndigits: the
\* nearest integer, a tie going to the even one (den > 0).
Round(num, den) ==
    LET q == num \div den
        r == num - q * den
    IN  IF 2 * r < den THEN q
        ELSE IF 2 * r > den THEN q + 1
        ELSE IF q % 2 = 0 THEN q ELSE q + 1

\* Net payout of a price in pence, in 1/10000 pound.
calculate_net(price) ==
    IF price < 5700 THEN price * 97 - 85000 ELSE price * 89 - 40000

\* Faulty variant: the middle band open at 10.
get_target_roi_open_band(avg_days) ==
    IF avg_days = None THEN 45
    ELSE IF avg_days[1] < 50 THEN 30
    ELSE IF 100 < avg_days[1] /\ avg_days[1] <= 150 THEN 40
    ELSE 45

\* avg_days: None or tenths of a day.  The result is a percentage.
get_target_roi(avg_days) ==
    IF avg_days = None THEN 45
    ELSE IF avg_days[1] < 50 THEN 30
    ELSE IF 100 <= avg_days[1] /\ avg_days[1] <= 150 THEN 40
    ELSE 45

\* sorted(s, key=date): a stable insertion sort, ascending.
RECURSIVE InsertAsc(_, _)
InsertAsc(x, s) ==
    IF s = <<>> THEN <<x>>
    ELSE IF Minutes(x.date) < Minutes(s[1].date) THEN <<x>> \o s
    ELSE <<s[1]>> \o InsertAsc(x, Tail(s))

RECURSIVE SortByDate(_)
SortByDate(s) ==
    IF s = <<>> THEN <<>>
    ELSE InsertAsc(s[Len(s)], SortByDate(SubSeq(s, 1, Len(s) - 1)))

\* sorted(s, key=date, reverse=True): descending, equal keys in their first order.
RECURSIVE InsertDesc(_, _)
InsertDesc(x, s) ==
    IF s = <<>> THEN <<x>>
    ELSE IF Minutes(x.date) > Minutes(s[1].date) THEN <<x>> \o s
    ELSE <<s[1]>> \o InsertDesc(x, Tail(s))

RECURSIVE SortByDateDesc(_)
SortByDateDesc(s) ==
    IF s = <<>> THEN <<>>
    ELSE InsertDesc(s[Len(s)], SortByDateDesc(SubSeq(s, 1, Len(s) - 1)))

\* Faulty variant: the records taken in the order given.
sorted_sales_as_given(sales_list) == sales_list

\* sorted_sales of calculate_avg_days
sorted_sales(sales_list) == SortByDate(sales_list)

\* intervals of calculate_avg_days: the whole days between consecutive records.
Intervals(sorted) ==
    [k \in 1..(Len(sorted) - 1) |-> DaysBetween(sorted[k + 1].date, sorted[k].date)]

\* None, or the average in tenths of a day.
calculate_avg_days(sales_list) ==
    IF Len(sales_list) < 2 THEN None
    ELSE LET intervals == Intervals(sorted_sales(sales_list))
         IN  IF intervals = <<>> THEN None
             ELSE Some(Round(10 * SumSeq(intervals), Len(intervals)))

(***************************************************************************)
(* get_target_roi called alone                                             *)
(***************************************************************************)
RoiInit ==
    /\ pc = "call"
    /\ arg \in {None} \cup {Some(a) : a \in (-MaxAvgTenths)..MaxAvgTenths}
    /\ ret = None
    /\ now = ClockStart
    /\ lines = <<>> /\ i = 0 /\ sales = <<>> /\ src = <<>> /\ iters = 0
    /\ all_sales = <<>> /\ use_price_filter = FALSE /\ min_price = 0
    /\ show_last_10 = FALSE /\ result = [outcome |-> "none"]

CallGetTargetRoi ==
    /\ pc = "call"
    /\ ret' = Some(get_target_roi(arg))
    /\ pc' = "returned"
    /\ UNCHANGED <<now, arg>>
    /\ UNCHANGED parseVars
    /\ UNCHANGED analysisVars

SpecRoi == RoiInit /\ [][CallGetTargetRoi]_vars

\* C5: get_target_roi is the three-tier step function: absent -> 0.45;
\* avgDays < 5 -> 0.30; 10 <= avgDays <= 15 -> 0.40; any other value
\* (5 <= avgDays < 10, or avgDays > 15) -> 0.45; no other value is returned.
C5_ThreeTierStep ==
    pc = "returned" =>
        /\ ret[1] \in {30, 40, 45}
        /\ (arg = None => ret[1] = 45)
        /\ (arg # None =>
              /\ (arg[1] < 50 <=> ret[1] = 30)
              /\ (arg[1] \in 100..150 <=> ret[1] = 40)
              /\ (arg[1] \in 50..99 \/ arg[1] > 150 <=> ret[1] = 45))

\* ROIPolicy(15.1) = 0.45 has been computed.
C5_Witness == pc = "returned" /\ arg = Some(151) /\ ret = Some(45)

(***************************************************************************)
(* calculate_avg_days called alone                                         *)
(***************************************************************************)
AvgDates == {DT(2026, 10, 3, 12, 0), DT(2026, 10, 13, 12, 0), DT(2026, 10, 14, 9, 0),
             DT(2026, 10, 23, 11, 0), DT(2026, 11, 2, 12, 0)}

Rec(date, price) == [date |-> date, price |-> price]

AvgDaysInit ==
    /\ pc = "call"
    /\ arg \in UNION {[1..n -> {Rec(d, 10000) : d \in AvgDates}] : n \in 0..MaxRecs}
    /\ ret = None
    /\ now = ClockStart
    /\ lines = <<>> /\ i = 0 /\ sales = <<>> /\ src = <<>> /\ iters = 0
    /\ all_sales = <<>> /\ use_price_filter = FALSE /\ min_price = 0
    /\ show_last_10 = FALSE /\ result = [outcome |-> "none"]

CallCalculateAvgDays ==
    /\ pc = "call"
    /\ ret' = calculate_avg_days(arg)
    /\ pc' = "returned"
    /\ UNCHANGED <<now, arg>>
    /\ UNCHANGED parseVars
    /\ UNCHANGED analysisVars

SpecAvgDays == AvgDaysInit /\ [][CallCalculateAvgDays]_vars

Swap(s, a, b) == [k \in 1..Len(s) |-> IF k = a THEN s[b] ELSE IF k = b THEN s[a] ELSE s[k]]

\* The whole days in a gap of g minutes, g >= 0, found by counting.
RECURSIVE WholeDays(_)
WholeDays(g) == IF g < 1440 THEN 0 ELSE 1 + WholeDays(g - 1440)

\* r is the mean of the whole-day gaps between the consecutive records of the
\* chronological list sorted, to the nearest tenth, and no gap is negative.
IsRoundedMeanGap(r, sorted) ==
    LET n == Len(sorted) - 1
        gaps == [k \in 1..n |-> Minutes(sorted[k + 1].date) - Minutes(sorted[k].date)]
    IN  /\ \A k \in 1..n : gaps[k] >= 0
        /\ 2 * Abs(r * n - 10 * SumSeq([k \in 1..n |-> WholeDays(gaps[k])])) <= n

\* C6: calculate_avg_days returns absent for fewer than 2 records; for 2 or more
\* records in any order it returns the mean, rounded to 1 decimal, of the
\* whole-day gaps between consecutive records in ascending timestamp order:
\* every gap is >= 0 and is the difference with its fractional days dropped, the
\* result is within 0.05 of the exact mean, and exchanging any two records of
\* the input does not change it.  Records spaced 10 and 20 days apart give 15.0.
C6_AvgDays ==
    pc = "returned" =>
        /\ (Len(arg) < 2 <=> ret = None)
        /\ Len(arg) >= 2 =>
             /\ IsRoundedMeanGap(ret[1], SortByDate(arg))
             /\ \A a, b \in 1..Len(arg) :
                   a < b => calculate_avg_days(Swap(arg, a, b)) = ret
        /\ (\E a, b, c \in 1..Len(arg) :
               /\ Len(arg) = 3 /\ {a, b, c} = {1, 2, 3}
               /\ Minutes(arg[b].date) - Minutes(arg[a].date) = 10 * 1440
               /\ Minutes(arg[c].date) - Minutes(arg[b].date) = 20 * 1440)
           => ret = Some(150)

\* Three records given out of order, 10 and 20 days apart, have given 15.0.
C6_Witness ==
    /\ pc = "returned"
    /\ Len(arg) = 3
    /\ Minutes(arg[1].date) - Minutes(arg[3].date) = 10 * 1440
    /\ Minutes(arg[2].date) - Minutes(arg[1].date) = 20 * 1440
    /\ ret = Some(150)

(***************************************************************************)
(* The analysis block ("if analyze_clicked: ... else: ...", after parsing)  *)
(***************************************************************************)
RecencyDays == 120
LastN == 10

\* Faulty variant: the floor applied whether enabled or not.
PriceFilteredAlways(all, enabled, floor) ==
    SelectSeq(all, LAMBDA r : r.price >= floor)

\* "Apply price filter if enabled"
PriceFiltered(all, enabled, floor) ==
    IF enabled THEN SelectSeq(all, LAMBDA r : r.price >= floor) ELSE all

\* Faulty variant: a record exactly 120 days old left out.
RecentSalesAfterCutoff(filtered, clock) ==
    SelectSeq(filtered,
              LAMBDA r : Minutes(r.date) > Minutes(clock) - RecencyDays * 1440)

\* cutoff_120 = datetime.now() - timedelta(days=120); recent_sales
RecentSales(filtered, clock) ==
    SelectSeq(filtered,
              LAMBDA r : Minutes(r.date) >= Minutes(clock) - RecencyDays * 1440)

\* sorted(xs) for numbers.
RECURSIVE InsertValue(_, _)
InsertValue(x, t) ==
    IF t = <<>> THEN <<x>>
    ELSE IF x < t[1] THEN <<x>> \o t
    ELSE <<t[1]>> \o InsertValue(x, Tail(t))

RECURSIVE SortValues(_)
SortValues(t) == IF t = <<>> THEN <<>> ELSE InsertValue(t[1], SortValues(Tail(t)))

\* statistics.median of a non-empty sequence of prices, kept exact.
Median(xs) ==
    LET v == SortValues(xs)
        n == Len(xs)
    IN  IF n % 2 = 1 THEN [s |-> v[(n + 1) \div 2], n |-> 1]
        ELSE [s |-> v[n \div 2] + v[n \div 2 + 1], n |-> 2]

SeqMin(xs) == CHOOSE x \in {xs[k] : k \in 1..Len(xs)} : \A k \in 1..Len(xs) : x <= xs[k]
SeqMax(xs) == CHOOSE x \in {xs[k] : k \in 1..Len(xs)} : \A k \in 1..Len(xs) : x >= xs[k]

\* Faulty variant: a difference of exactly 2 counted as a trend.
TrendOfInclusive(first, second) ==
    IF second.s * first.n >= (first.s + 200 * first.n) * second.n THEN "rising"
    ELSE IF second.s * first.n <= (first.s - 200 * first.n) * second.n THEN "falling"
    ELSE "stable"

\* "if second_half_avg > first_half_avg + 2: ... elif second_half_avg <
\* first_half_avg - 2: ... else: ..." on exact averages [s, n] in pence.
TrendOf(first, second) ==
    IF second.s * first.n > (first.s + 200 * first.n) * second.n THEN "rising"
    ELSE IF second.s * first.n < (first.s - 200 * first.n) * second.n THEN "falling"
    ELSE "stable"

\* sorted(recent_sales, key=date, reverse=True)[:10]
last_10_sales(recent) ==
    LET desc == SortByDateDesc(recent) IN SubSeq(desc, 1, Min2(LastN, Len(desc)))

\* Faulty variant: the last-10 velocity used when there is one.
TargetRoiOfLastTen(avg_days_all, avg_days_10) ==
    IF avg_days_10 # None THEN get_target_roi(avg_days_10)
    ELSE get_target_roi(avg_days_all)

\* target_roi = get_target_roi(avg_days_all)
TargetRoiOf(avg_days_all, avg_days_10) == get_target_roi(avg_days_all)

\* The branch that ends in st.success("Analysis Complete").
Summary(recent, show) ==
    LET n == Len(recent)
        prices == Prices(recent)
        avg_price == Mean(prices)
        sorted_recent == SortByDate(recent)
        mid == n \div 2
        first_half_avg == IF mid > 0 THEN Mean(Prices(SubSeq(sorted_recent, 1, mid)))
                          ELSE avg_price
        second_half_avg == IF mid < n THEN Mean(Prices(SubSeq(sorted_recent, mid + 1, n)))
                           ELSE avg_price
        nets == [k \in 1..n |-> calculate_net(prices[k])]
        avg_net == Mean(nets)
        last10 == last_10_sales(recent)
        avg_net_last10 == IF last10 # <<>>
                          THEN Some(Mean([k \in 1..Len(last10) |->
                                              calculate_net(last10[k].price)]))
                          ELSE None
        avg_days_all == calculate_avg_days(recent)
        avg_days_10 == IF show /\ Len(last10) >= 2 THEN calculate_avg_days(last10)
                       ELSE None
        target_roi == TargetRoiOf(avg_days_all, avg_days_10)
    IN  [outcome |-> "AnalysisResult",
         n |-> n,
         avg_price |-> avg_price,
         med_price |-> Median(prices),
         min_p |-> SeqMin(prices),
         max_p |-> SeqMax(prices),
         first_half_avg |-> first_half_avg,
         second_half_avg |-> second_half_avg,
         trend |-> TrendOf(first_half_avg, second_half_avg),
         avg_net |-> avg_net,
         avg_net_last10 |-> avg_net_last10,
         avg_days_all |-> avg_days_all,
         avg_days_10 |-> avg_days_10,
         target_roi |-> target_roi,
         \* round(avg_net / (1 + target_roi), 2), in pence
         max_pay |-> Round(avg_net.s, avg_net.n * (100 + target_roi)),
         warnings |-> (IF n < 10 THEN {"low reliability"} ELSE {})
                      \cup (IF n < 5 THEN {"very low volume"} ELSE {})]

\* What the block displays for the parsed records all.
Analysis(all, enabled, floor, show, clock) ==
    LET filtered_sales == PriceFiltered(all, enabled, floor) IN
    IF Len(filtered_sales) < 2 THEN [outcome |-> "InsufficientData"]
    ELSE LET recent_sales == RecentSales(filtered_sales, clock) IN
         IF Len(recent_sales) < 2 THEN [outcome |-> "InsufficientRecentData"]
         ELSE Summary(recent_sales, show)

AnalysisClock == DT(2026, 11, 2, 12, 0)

\* Record lists parse_sales can return at AnalysisClock: up to MaxFree records
\* around the edge of the recency window and 10 days apart, or up to MaxOlder of
\* them followed by a run of ten daily records.
FreeDates == {DT(2026, 7, 5, 11, 59), DT(2026, 7, 5, 12, 0),
              DT(2026, 10, 23, 12, 0), DT(2026, 11, 2, 12, 0)}
FreePrices == {10000, 10200, 12000}
DailyRun == [k \in 1..10 |-> Rec(IF k <= 8 THEN DT(2026, 10, 23 + k, 9, 0)
                                             ELSE DT(2026, 11, k - 8, 9, 0), 5000)]
FreeLists(max) == UNION {[1..n -> {Rec(d, p) : d \in FreeDates, p \in FreePrices}]
                            : n \in 0..max}
SalesLists == FreeLists(MaxFree) \cup {f \o DailyRun : f \in FreeLists(MaxOlder)}

AnalyzeInit ==
    /\ pc = "parsed"
    /\ now = AnalysisClock
    /\ all_sales \in SalesLists
    /\ use_price_filter \in BOOLEAN
    /\ min_price \in {0, 11000}
    /\ show_last_10 \in BOOLEAN
    /\ result = [outcome |-> "none"]
    /\ lines = <<>> /\ i = 0 /\ sales = <<>> /\ src = <<>> /\ iters = 0
    /\ arg = None /\ ret = None

\* The block from "Apply price filter if enabled" on.  datetime.now() is read
\* only once 2 records have passed the price filter.
Analyze ==
    /\ pc = "parsed"
    /\ \E clock \in ClockFrom(now) :
          /\ result' = Analysis(all_sales, use_price_filter, min_price,
                                show_last_10, clock)
          /\ now' = IF Len(PriceFiltered(all_sales, use_price_filter, min_price)) < 2
                    THEN now ELSE clock
    /\ pc' = "shown"
    /\ UNCHANGED <<all_sales, use_price_filter, min_price, show_last_10>>
    /\ UNCHANGED parseVars
    /\ UNCHANGED callVars

\* The analysis of a record list, under every setting.
SpecAnalyze == AnalyzeInit /\ [][Analyze]_vars

\* The whole click: the blank check, parse_sales, the analysis.
ClickNext == RejectBlank \/ StartParse \/ ParseNext \/ Analyze

SpecClick == ClickInit /\ [][ClickNext]_vars

(***************************************************************************)
(* Properties of the analysis block                                        *)
(***************************************************************************)
\* The positions of all_sales that satisfy the price floor, and those of them
\* inside the recency window.
Priced == {k \in 1..Len(all_sales) :
              use_price_filter => all_sales[k].price >= min_price}
Recent == {k \in Priced :
              Minutes(all_sales[k].date) >= Minutes(now) - 120 * 1440}

\* C1: a run ends in exactly one outcome: InsufficientData if fewer than 2
\* records satisfy the price floor (all records count when the floor is
\* disabled); otherwise InsufficientRecentData if fewer than 2 of those have
\* timestamp >= now - 120 days; otherwise a full result, on 2 or more records.
C1_OneOutcome ==
    pc = "shown" =>
        /\ result.outcome =
              IF Cardinality(Priced) < 2 THEN "InsufficientData"
              ELSE IF Cardinality(Recent) < 2 THEN "InsufficientRecentData"
              ELSE "AnalysisResult"
        /\ result.outcome = "AnalysisResult" =>
              result.n = Cardinality(Recent) /\ result.n >= 2

\* A full result on exactly 2 records, one of them exactly 120 days old, with
\* the price floor set but disabled and a record below it.
C1_Witness ==
    /\ pc = "shown"
    /\ result.outcome = "AnalysisResult"
    /\ result.n = 2
    /\ ~use_price_filter /\ min_price > 0
    /\ \E k \in Recent : all_sales[k].price < min_price
    /\ \E k \in Recent : Minutes(all_sales[k].date) = Minutes(now) - 120 * 1440

\* The input of C4: exactly 2 records priced 100 and 120, 10 days apart, both in
\* the recency window, the price filter disabled.
TwoRecordsTenDaysApart ==
    /\ Len(all_sales) = 2
    /\ ~use_price_filter
    /\ {all_sales[1].price, all_sales[2].price} = {10000, 12000}
    /\ Abs(Minutes(all_sales[1].date) - Minutes(all_sales[2].date)) = 10 * 1440
    /\ Recent = {1, 2}

\* C4 (as claimed): that input yields n = 2, avgPrice = 110 and targetROI = 0.45.
C4_RoundTripRoi45 ==
    (pc = "shown" /\ TwoRecordsTenDaysApart) =>
        /\ result.outcome = "AnalysisResult"
        /\ result.n = 2
        /\ result.avg_price.s = 11000 * result.avg_price.n
        /\ result.target_roi = 45

\* C4 (amended): that input yields n = 2, avgPrice = 110 and targetROI = 0.40,
\* the 10.0-day average gap lying in the inclusive 10-15 band.
C4_RoundTripRoi40 ==
    (pc = "shown" /\ TwoRecordsTenDaysApart) =>
        /\ result.outcome = "AnalysisResult"
        /\ result.n = 2
        /\ result.avg_price.s = 11000 * result.avg_price.n
        /\ result.avg_days_all = Some(100)
        /\ result.target_roi = 40

\* The input of C4 has been analysed, the later record being the cheaper one.
C4_Witness ==
    /\ pc = "shown"
    /\ TwoRecordsTenDaysApart
    /\ all_sales[1].price = 12000
    /\ Minutes(all_sales[1].date) < Minutes(all_sales[2].date)

\* The recency-filtered records, in the order of all_sales.
RecentRecords == RecentSales(PriceFiltered(all_sales, use_price_filter, min_price), now)

\* C7: the target ROI is ROIPolicy of the average days of the full
\* recency-filtered set; the run with showLastTenStats negated gives the same
\* target ROI and the same recommended max buy price, and differs at most in the
\* last-10 velocity, which is absent when the flag is off.
C7_RoiIgnoresLastTen ==
    (pc = "shown" /\ result.outcome = "AnalysisResult") =>
        LET other == Analysis(all_sales, use_price_filter, min_price,
                              ~show_last_10, now)
        IN  /\ result.target_roi = get_target_roi(calculate_avg_days(RecentRecords))
            /\ other.outcome = "AnalysisResult"
            /\ other.target_roi = result.target_roi
            /\ other.max_pay = result.max_pay
            /\ [other EXCEPT !.avg_days_10 = None] = [result EXCEPT !.avg_days_10 = None]
            /\ (~show_last_10 => result.avg_days_10 = None)

\* More than 10 recent records, the last-10 velocity shown, and ROIPolicy of it
\* differing from the target ROI.
C7_Witness ==
    /\ pc = "shown"
    /\ result.outcome = "AnalysisResult"
    /\ result.n > 10
    /\ show_last_10
    /\ result.avg_days_10 # None
    /\ get_target_roi(result.avg_days_10) # result.target_roi

FlipTrend(t) == IF t = "rising" THEN "falling" ELSE IF t = "falling" THEN "rising" ELSE t

\* C8: with the n recent records sorted chronologically and split at n // 2, the
\* trend is rising iff secondHalfAvg - firstHalfAvg > 2, falling iff it is < -2,
\* stable otherwise (exactly 2 and -2 included); exchanging the two half-averages
\* exchanges rising and falling and keeps stable.
C8_TrendThreshold ==
    (pc = "shown" /\ result.outcome = "AnalysisResult") =>
        LET sorted == SortByDate(RecentRecords)
            n == Len(sorted)
            mid == n \div 2
            fs == SumSeq([k \in 1..mid |-> sorted[k].price])
            ss == SumSeq([k \in 1..(n - mid) |-> sorted[mid + k].price])
            \* (secondHalfAvg - firstHalfAvg) * mid * (n - mid), in pence
            diff == ss * mid - fs * (n - mid)
            two == 200 * mid * (n - mid)
        IN  /\ n = result.n
            /\ (result.trend = "rising" <=> diff > two)
            /\ (result.trend = "falling" <=> diff < -two)
            /\ (result.trend = "stable" <=> (-two <= diff /\ diff <= two))
            /\ TrendOf(result.second_half_avg, result.first_half_avg)
                  = FlipTrend(result.trend)

\* An odd number of records whose half-averages differ by exactly 2: stable.
C8_Witness ==
    /\ pc = "shown"
    /\ result.outcome = "AnalysisResult"
    /\ result.n = 3
    /\ result.trend = "stable"
    /\ result.second_half_avg.s * result.first_half_avg.n
          = (result.first_half_avg.s + 200 * result.first_half_avg.n)
               * result.second_half_avg.n

(***************************************************************************)
(* Properties of parse_sales                                               *)
(***************************************************************************)
\* The lines of the lookahead window of cursor c (clipped to the input) that
\* carry a price: a currency symbol followed by a numeric literal.
PricedInWindow(c) ==
    {j \in c..Min2(c + 5, Len(lines) - 1) : lines[j + 1].am = "num"}

SetMin(S) == CHOOSE x \in S : \A y \in S : x <= y

OnValidDate == /\ pc = "loop"
               /\ i < Len(lines)
               /\ lines[i + 1].dm
               /\ Strptime(lines[i + 1].g) # None

\* What C2 says an iteration on a valid date line does.
WindowStep ==
    LET W == PricedInWindow(i)
        p == Strptime(lines[i + 1].g)[1]
    IN  IF W # {}
        THEN /\ Len(sales') = Len(sales) + 1
             /\ SubSeq(sales', 1, Len(sales)) = sales
             /\ sales'[Len(sales')].price = lines[SetMin(W) + 1].amt
             /\ sales'[Len(sales')].date \in {p, [p EXCEPT !.y = p.y - 100]}
             /\ i' = SetMin(W) + 1
        ELSE /\ sales' = sales
             /\ i' = i + 1

\* C2 (as claimed): on a line with a valid date-time, if some line of the window
\* [cursor, cursor+5] carries a price, exactly one record is emitted, with that
\* date-time and the price of the first price-bearing line of the window, and the
\* cursor moves to the line after that price line; otherwise no record is emitted
\* and the cursor moves to cursor+1.
C2_WindowEmitsFirstPrice == [][OnValidDate => WindowStep]_vars

\* C2, restricted to the iterations where no line of the window before the first
\* price-bearing one (or, when there is none, no line of the window at all) holds
\* a currency symbol followed by commas only: there the code does as claimed.
C2_WindowWithoutBareCommas ==
    [][(/\ OnValidDate
        /\ LET W == PricedInWindow(i)
               last == IF W = {} THEN Min2(i + 5, Len(lines) - 1) ELSE SetMin(W)
           IN  \A j \in i..last : lines[j + 1].am # "commas")
       => WindowStep]_vars

\* C3: every emitted record's timestamp is not later than the clock: a date-time
\* that parsed to a moment strictly later than the clock read for it is emitted
\* with year = parsedYear - 100 and the other fields unchanged, any other
\* date-time is emitted as parsed.
C3_NoFutureTimestamp ==
    \A k \in 1..Len(sales) :
        LET p == Strptime(lines[src[k].dline + 1].g)[1]
            at == src[k].at
        IN  /\ Minutes(sales[k].date) <= Minutes(at)
            /\ Minutes(at) <= Minutes(now)
            /\ sales[k].date =
                 IF Minutes(p) > Minutes(at) THEN [p EXCEPT !.y = p.y - 100] ELSE p

\* A corrected record and an uncorrected one have been emitted.
C3_Witness ==
    /\ pc = "parsed"
    /\ \E k \in 1..Len(sales) :
          sales[k].date.y = Strptime(lines[src[k].dline + 1].g)[1].y - 100
    /\ \E k \in 1..Len(sales) :
          sales[k].date = Strptime(lines[src[k].dline + 1].g)[1]

\* C9: no line is the price source of two records nor the date source of two
\* records; date-line and price-line indices are strictly increasing in emission
\* order; each record's price line lies in [date line, date line + 5]; there are
\* at most as many records as date-matching lines and as price-bearing lines.
C9_LinesUsedOnce ==
    /\ Len(src) = Len(sales)
    /\ \A k \in 1..Len(src) :
          /\ src[k].dline \in 0..(Len(lines) - 1)
          /\ src[k].pline \in 0..(Len(lines) - 1)
          /\ lines[src[k].dline + 1].dm
          /\ lines[src[k].pline + 1].am = "num"
          /\ sales[k].price = lines[src[k].pline + 1].amt
          /\ src[k].pline >= src[k].dline
          /\ src[k].pline <= src[k].dline + 5
    /\ \A k, l \in 1..Len(src) :
          k < l => /\ src[k].dline < src[l].dline
                   /\ src[k].pline < src[l].pline
    /\ Len(sales) <= Cardinality({k \in 1..Len(lines) : lines[k].dm})
    /\ Len(sales) <= Cardinality({k \in 1..Len(lines) : lines[k].am = "num"})

\* Two records, one with its price on the date line, the other with its price on
\* the last line of the window.
C9_Witness ==
    /\ pc = "parsed"
    /\ Len(sales) = 2
    /\ \E k \in 1..2 : src[k].pline = src[k].dline
    /\ \E k \in 1..2 : src[k].pline = src[k].dline + 5

CursorInv ==
    /\ i <= Len(lines)
    /\ iters <= Len(lines)
    /\ (pc = "parsed" => i = Len(lines))
    /\ (pc = "shown" /\ lines # <<>> => i = Len(lines))
    /\ (pc = "loop" => ENABLED ParseNext)

CursorStep ==
    (pc = "loop" /\ i < Len(lines)) =>
        /\ iters' = iters + 1
        /\ pc' = "loop"
        /\ i' > i
        /\ \/ i' = i + 1
           \/ /\ Len(src') = Len(src) + 1
              /\ i' = src'[Len(src')].pline + 1

\* C10: the cursor strictly increases on every iteration (by 1, or to one past
\* the consumed price line), also when the date-time or the price fails to
\* parse; the scan makes at most len(lines) iterations, is never stuck before the
\* end, and ends with the cursor at the end of the line list.
C10_CursorTerminates ==
    /\ []CursorInv
    /\ [][CursorStep]_vars

\* A scan has ended that met a date that does not parse and jumped over a
\* consumed price line.
C10_Witness ==
    /\ pc = "parsed"
    /\ iters < Len(lines)
    /\ Len(sales) > 0
    /\ \E k \in 1..Len(lines) : lines[k] = BadDate

====
